---- MODULE Spec2Model ----
(***************************************************************************)
(* A model of funycode (src/funycode.c): the LZ compressor, the Bootstring *)
(* delta codec, and both revisions of wfunencode / wfundecode that the     *)
(* source file holds (lines 1-614: suffix by sorting the code entries;     *)
(* lines 616-1177: suffix by sweeping n upwards), as built for a target    *)
(* with a 64-bit size_t and a 32-bit wchar_t.                              *)
(*                                                                         *)
(* Conventions.  C arrays are 0-based; a caller's output buffer is a       *)
(* partial function from the indices that were written to the values       *)
(* written there ("mem"), so that a write outside the buffer is visible.   *)
(* Input arrays and internal streams are 1-based sequences.  Characters    *)
(* are their ASCII codes.                                                  *)
(***************************************************************************)
EXTENDS Integers, Sequences, FiniteSets, TLC

(***************************************************************************)
(* Program constants.                                                      *)
(***************************************************************************)
BASE == 62
TMIN == 1
TMAX == 52
SKEW == 208
DAMP == 700
INITIAL_BIAS == (BASE * 2) - (TMAX \div 2)
INITIAL_N == 32
BACKREF == 55296
COPYBITS == 4
COPYMASK == (2 ^ COPYBITS) - 1
MINCOPY == 4
MAXCOPY == (2 ^ COPYBITS) - 1 + MINCOPY
DISTBITS == 7
DISTMASK == ((2 ^ DISTBITS) - 1) * (2 ^ COPYBITS)
MINDIST == 1
MAXDIST == (2 ^ DISTBITS) - 1 + MINDIST
\* nitems(htab)
HTABSIZE == 512
\* FNVBASIS and FNVPRIME modulo HTABSIZE: hash's result is only ever used
\* modulo nitems(htab) = 2^9, and xor and multiplication modulo 2^64 commute
\* with reduction modulo 2^9, so the low nine bits are all that is needed.
FNVBASIS_LOW == 293
FNVPRIME_LOW == 435
WCHAR_MAX == 2147483647
\* (size_t) -1
FUNYCODE_ERR == -1

\* ASCII codes
CH_NUL == 0
CH_0 == 48
CH_9 == 57
CH_A == 65
CH_Z == 90
CH_USCORE == 95
CH_a == 97
CH_z == 122

(***************************************************************************)
(* C arithmetic helpers.                                                   *)
(***************************************************************************)
\* C's integer division truncates towards zero (imaxdiv, operator /).
cquot(a, b) ==
    IF (a >= 0 /\ b > 0) \/ (a <= 0 /\ b < 0)
    THEN (IF a >= 0 THEN a ELSE -a) \div (IF b >= 0 THEN b ELSE -b)
    ELSE -((IF a >= 0 THEN a ELSE -a) \div (IF b >= 0 THEN b ELSE -b))

crem(a, b) == a - b * cquot(a, b)

RECURSIVE xor(_, _)
xor(a, b) ==
    IF a = 0 THEN b
    ELSE IF b = 0 THEN a
    ELSE ((a + b) % 2) + 2 * xor(a \div 2, b \div 2)

\* The written cells of a buffer, as the string of its first n elements.
Str(mem, n) == [i \in 1..n |-> mem[i - 1]]

\* A buffer nothing has been written to.
EmptyMem == << >>

\* OUT(buf, len, pos, val): buf is the buffer "mem" seen from offset base.
OUT(mem, base, len, pos, val) ==
    IF pos < len THEN ((base + pos) :> val) @@ mem ELSE mem

satsub(a, b) == IF a > b THEN a - b ELSE 0

\* wctob(wc): the byte of a wide character that has a one-byte form, EOF
\* (-1) for any other.  The code applies it to letters and digits only.
wctob(wc) == IF wc >= 0 /\ wc <= 127 THEN wc ELSE -1

\* The first c.ret elements of what compress wrote (it is given a buffer as
\* long as its input, and never writes more than it reads).
CompressedStream(c) == Str(c.mem, c.ret)

(***************************************************************************)
(* The compressor.  Every loop is an operator on the record of the loop's  *)
(* variables, its body a separate operator.                                *)
(***************************************************************************)
Max(a, b) == IF a > b THEN a ELSE b

\* src[i] for a 0-based i; an index at or past srclen is outside the array,
\* and the read yields whatever lies there (g).
srcread(src, i, g) == IF i < Len(src) THEN src[i + 1] ELSE g

\* h = (h ^ buf[i]) * FNVPRIME, modulo nitems(htab)
hashstep(h, c) == (xor(h, c % HTABSIZE) * FNVPRIME_LOW) % HTABSIZE

\* hash(src + p) % nitems(htab)
hash(src, p, g) ==
    hashstep(hashstep(hashstep(FNVBASIS_LOW, srcread(src, p, g)),
                      srcread(src, p + 1, g)),
             srcread(src, p + 2, g))

RECURSIVE prefixloop(_, _, _, _)
prefixloop(src, a, b, len) ==
    IF len < MAXCOPY /\ a + len < Len(src) /\ b + len < Len(src)
       /\ src[a + len + 1] = src[b + len + 1]
    THEN prefixloop(src, a, b, len + 1)
    ELSE len

\* prefix counting MINCOPY - 1 symbols it has not compared.
prefix_loose(src, a, b) == prefixloop(src, a, b, 0) + MINCOPY - 1

prefix(src, a, b) == prefixloop(src, a, b, 0)

\* The body of the first loop of compress: one leading literal.
compress_head_step(src, dstlen, g, st) ==
    [st EXCEPT !.mem = OUT(st.mem, 0, dstlen, st.dstpos, src[st.srcpos + 1]),
               !.htab = [@ EXCEPT ![hash(src, st.srcpos, g)] = st.srcpos],
               !.srcpos = @ + 1,
               !.dstpos = @ + 1,
               !.maxrd = Max(@, st.srcpos + 2)]

\* The first loop of compress: up to MINCOPY leading literals.
RECURSIVE compress_head(_, _, _, _)
compress_head(src, dstlen, g, st) ==
    IF st.srcpos + MINCOPY < Len(src) /\ st.srcpos < MINCOPY
    THEN compress_head(src, dstlen, g, compress_head_step(src, dstlen, g, st))
    ELSE st

\* The inner while (1) loop: record the st.len positions just consumed,
\* st.h being the slot of srcpos.
RECURSIVE compress_fill(_, _, _)
compress_fill(src, g, st) ==
    IF st.len - 1 = 0
    THEN [st EXCEPT !.htab = [@ EXCEPT ![st.h] = st.srcpos],
                    !.srcpos = @ + 1,
                    !.len = 0]
    ELSE compress_fill(src, g,
            [st EXCEPT !.htab = [@ EXCEPT ![st.h] = st.srcpos],
                       !.srcpos = @ + 1,
                       !.len = @ - 1,
                       !.h = hash(src, st.srcpos + 1, g),
                       !.maxrd = Max(@, st.srcpos + 3)])

\* compress_emit with the distance of a match token written as d, not as
\* d - MINDIST.
compress_emit_far(src, dstlen, st, d, plen) ==
    IF d >= MINDIST /\ d <= MAXDIST /\ plen >= MINCOPY
    THEN [st EXCEPT !.mem = OUT(st.mem, 0, dstlen, st.dstpos,
                                BACKREF + (plen - MINCOPY)
                                + (d * (2 ^ COPYBITS))),
                    !.dstpos = @ + 1,
                    !.len = plen]
    ELSE [st EXCEPT !.mem = OUT(st.mem, 0, dstlen, st.dstpos, src[st.srcpos + 1]),
                    !.dstpos = @ + 1,
                    !.len = 1]

\* The if of the main loop: d is srcpos - htab[h] (a size_t: a slot above
\* srcpos wraps to a distance far above MAXDIST) and plen the common prefix
\* (computed only when d is in range).
compress_emit(src, dstlen, st, d, plen) ==
    IF d >= MINDIST /\ d <= MAXDIST /\ plen >= MINCOPY
    THEN [st EXCEPT !.mem = OUT(st.mem, 0, dstlen, st.dstpos,
                                BACKREF + (plen - MINCOPY)
                                + ((d - MINDIST) * (2 ^ COPYBITS))),
                    !.dstpos = @ + 1,
                    !.len = plen]
    ELSE [st EXCEPT !.mem = OUT(st.mem, 0, dstlen, st.dstpos, src[st.srcpos + 1]),
                    !.dstpos = @ + 1,
                    !.len = 1]

compress_look(src, dstlen, st, h) ==
    compress_emit(src, dstlen,
                  [st EXCEPT !.h = h, !.maxrd = Max(@, st.srcpos + 2)],
                  st.srcpos - st.htab[h],
                  IF st.srcpos - st.htab[h] >= MINDIST
                     /\ st.srcpos - st.htab[h] <= MAXDIST
                  THEN prefix(src, st.srcpos, st.htab[h])
                  ELSE 0)

\* The main loop of compress.
RECURSIVE compress_main(_, _, _, _)
compress_main(src, dstlen, g, st) ==
    IF st.srcpos + MINCOPY < Len(src)
    THEN compress_main(src, dstlen, g,
            compress_fill(src, g,
                compress_look(src, dstlen, st, hash(src, st.srcpos, g))))
    ELSE st

\* The last loop of compress: the trailing literals.
RECURSIVE compress_tail(_, _, _)
compress_tail(src, dstlen, st) ==
    IF st.srcpos < Len(src)
    THEN compress_tail(src, dstlen,
            [st EXCEPT !.mem = OUT(st.mem, 0, dstlen, st.dstpos, src[st.srcpos + 1]),
                       !.srcpos = @ + 1,
                       !.dstpos = @ + 1])
    ELSE st

compress_result(st) == [ret |-> st.dstpos, mem |-> st.mem, maxrd |-> st.maxrd]

\* compress(dst, dstlen, src, srclen).  htab0 is the table's content on
\* entry and g what a read past the end of src yields.  The result holds
\* the return value (dstpos), the written cells of dst, and the highest
\* index of src that hash was asked to read (-1 if none).
compress(dstlen, src, htab0, g) ==
    compress_result(
        compress_tail(src, dstlen,
            compress_main(src, dstlen, g,
                compress_head(src, dstlen, g,
                    [srcpos |-> 0, dstpos |-> 0, mem |-> EmptyMem,
                     htab |-> htab0, maxrd |-> -1, h |-> 0, len |-> 0]))))

(***************************************************************************)
(* The decompressor.                                                       *)
(***************************************************************************)
IsBackref(ch) == ch >= 0 /\ ch - (ch % (COPYMASK + DISTMASK + 1)) = BACKREF

\* TokDist without MINDIST.
TokDistNear(ch) == (ch % (COPYMASK + DISTMASK + 1)) \div (2 ^ COPYBITS)

\* ((ch & DISTMASK) >> COPYBITS) + MINDIST
TokDist(ch) == ((ch % (COPYMASK + DISTMASK + 1)) \div (2 ^ COPYBITS)) + MINDIST

\* (ch & COPYMASK) + MINCOPY
TokLen(ch) == (ch % (2 ^ COPYBITS)) + MINCOPY

\* The copy loop of a match: st.len reads of dst[pos++], each written at
\* dstpos++ when that is inside the buffer.  dst[pos] is evaluated before
\* OUT tests the index, so a pos outside 0..dstlen-1 (pos is a size_t: a dist
\* above dstpos wraps it far past the end) is a read outside the caller's
\* buffer: the call faults (oob.fault) or goes on with whatever value lies
\* there (oob.val).
RECURSIVE decompress_copy(_, _, _)
decompress_copy(dstlen, oob, st) ==
    IF st.len = 0 \/ st.st # "ok"
    THEN st
    ELSE IF st.pos >= 0 /\ st.pos < dstlen
    THEN decompress_copy(dstlen, oob,
            [st EXCEPT !.mem = OUT(st.mem, 0, dstlen, st.dstpos, st.mem[st.pos]),
                       !.dstpos = @ + 1,
                       !.pos = @ + 1,
                       !.len = @ - 1])
    ELSE IF oob.fault
    THEN [st EXCEPT !.st = "fault", !.oobread = TRUE]
    ELSE decompress_copy(dstlen, oob,
            [st EXCEPT !.mem = OUT(st.mem, 0, dstlen, st.dstpos, oob.val),
                       !.dstpos = @ + 1,
                       !.pos = @ + 1,
                       !.len = @ - 1,
                       !.oobread = TRUE])

\* The body of the loop of decompress, ch being src[srcpos++].
decompress_step(dstlen, oob, st, ch) ==
    IF IsBackref(ch)
    THEN decompress_copy(dstlen, oob,
            [st EXCEPT !.srcpos = @ + 1,
                       !.pos = st.dstpos - TokDist(ch),
                       !.len = TokLen(ch)])
    ELSE [st EXCEPT !.srcpos = @ + 1,
                    !.mem = OUT(st.mem, 0, dstlen, st.dstpos, ch),
                    !.dstpos = @ + 1]

RECURSIVE decompress_loop(_, _, _, _)
decompress_loop(dstlen, src, oob, st) ==
    IF st.srcpos < Len(src) /\ st.st = "ok"
    THEN decompress_loop(dstlen, src, oob,
            decompress_step(dstlen, oob, st, src[st.srcpos + 1]))
    ELSE st

decompress_result(st) ==
    [st |-> st.st, ret |-> st.dstpos, mem |-> st.mem, oobread |-> st.oobread]

\* decompress(dst, dstlen, src, srclen): st is "ok" or "fault" (the call
\* did not return), ret the return value (dstpos), mem the written cells of
\* dst, oobread whether dst was read outside 0..dstlen-1.
decompress(dstlen, src, oob) ==
    decompress_result(
        decompress_loop(dstlen, src, oob,
            [st |-> "ok", srcpos |-> 0, dstpos |-> 0, mem |-> EmptyMem,
             pos |-> 0, len |-> 0, oobread |-> FALSE]))

(***************************************************************************)
(* The Bootstring delta codec.                                             *)
(***************************************************************************)
\* tresh counting the digits from 0 where the code counts them from 1.
treshbad(pos, bias) ==
    IF (pos * BASE) - bias < TMIN THEN TMIN
    ELSE IF (pos * BASE) - bias > TMAX THEN TMAX
    ELSE (pos * BASE) - bias

\* tresh(pos, bias): the threshold of digit pos.
tresh(pos, bias) ==
    IF ((pos + 1) * BASE) - bias < TMIN THEN TMIN
    ELSE IF ((pos + 1) * BASE) - bias > TMAX THEN TMAX
    ELSE ((pos + 1) * BASE) - bias

RECURSIVE adapt_loop(_, _)
adapt_loop(delta, k) ==
    IF delta > cquot((BASE - TMIN) * TMAX, 2)
    THEN adapt_loop(cquot(delta, BASE - TMIN), k + BASE)
    ELSE k + cquot((BASE - TMIN + 1) * delta, delta + SKEW)

adapt(delta, outpos, first) ==
    adapt_loop((IF first THEN cquot(delta, DAMP) ELSE cquot(delta, 2))
               + cquot(delta, outpos), 0)

\* The character of a base 62 digit (the three branches of put and of
\* encode_value).
digitchar(val) ==
    IF val >= 0 /\ val <= 9 THEN val + CH_0
    ELSE IF val >= 10 /\ val <= 35 THEN val - 10 + CH_A
    ELSE val - 36 + CH_a

\* put(buf, len, val) on the loop record of encode, buf being st.mem seen
\* from offset base + st.pos: the assertion aborts the program when val is
\* not a base 62 digit (the build keeps assertions: the Makefile sets no
\* NDEBUG).
put(st, base, len, val) ==
    IF val >= 0 /\ val <= BASE - 1
    THEN [st EXCEPT !.mem = OUT(st.mem, base + st.pos, satsub(len, st.pos), 0,
                                digitchar(val)),
                    !.pos = @ + 1]
    ELSE [st EXCEPT !.st = "abort", !.pos = @ + 1]

\* One round of the loop of encode, t being tresh(pos, bias).
encode_step(st, base, len, t) ==
    IF st.delta < t
    THEN [put(st, base, len, st.delta) EXCEPT !.done = TRUE]
    ELSE [put(st, base, len, crem(st.delta - t, BASE - t) + t)
            EXCEPT !.delta = cquot(st.delta - t, BASE - t)]

RECURSIVE encode_loop(_, _, _, _)
encode_loop(st, base, len, bias) ==
    IF st.done \/ st.st # "ok"
    THEN st
    ELSE encode_loop(encode_step(st, base, len, tresh(st.pos, bias)), base, len, bias)

\* encode(buf, len, bias, delta), buf being mem seen from offset base: pos
\* is the number of digits.
encode(mem, base, len, bias, delta) ==
    encode_loop([st |-> "ok", mem |-> mem, pos |-> 0, delta |-> delta,
                 done |-> FALSE], base, len, bias)

(***************************************************************************)
(* wfunencode, first revision: the suffix by sorting the code entries.     *)
(***************************************************************************)
codecmp(a, b) ==
    IF a.wc - b.wc # 0 THEN a.wc - b.wc
    ELSE IF a.pos < b.pos THEN -1 ELSE IF a.pos > b.pos THEN 1 ELSE 0

\* qsort(codes, ncodes, sizeof(codes[0]), codecmp): no two entries compare
\* equal (their pos differ), so the sorted order is unique.
RECURSIVE insertcode(_, _)
insertcode(sorted, c) ==
    IF sorted = << >> THEN <<c>>
    ELSE IF codecmp(c, Head(sorted)) < 0 THEN <<c>> \o sorted
    ELSE <<Head(sorted)>> \o insertcode(Tail(sorted), c)

RECURSIVE sortcodes(_)
sortcodes(codes) ==
    IF codes = << >> THEN << >>
    ELSE insertcode(sortcodes(Tail(codes)), Head(codes))

\* The test of the basic pass without its digits.
isbasicbad(ch, encpos) ==
    (ch >= CH_A /\ ch <= CH_Z) \/ (ch >= CH_a /\ ch <= CH_z)

\* The test of the basic pass: a letter, or a digit once something has been
\* output.
isbasic(ch, encpos) ==
    (ch >= CH_A /\ ch <= CH_Z) \/ (ch >= CH_a /\ ch <= CH_z)
    \/ (ch >= CH_0 /\ ch <= CH_9 /\ encpos # 0)

\* The body of the loop of the basic pass.
basicstep(enclen, st, ch, namepos) ==
    IF isbasic(ch, st.encpos)
    THEN [st EXCEPT !.mem = OUT(st.mem, 0, enclen, st.encpos, wctob(ch)),
                    !.encpos = @ + 1]
    ELSE [st EXCEPT !.codes = Append(@, [wc |-> ch, pos |-> namepos])]

RECURSIVE basicpass(_, _, _, _)
basicpass(buf, enclen, st, namepos) ==
    IF namepos < Len(buf)
    THEN basicpass(buf, enclen, basicstep(enclen, st, buf[namepos + 1], namepos),
                   namepos + 1)
    ELSE st

\* codes[i].pos -= ofs, ofs counting the later entries with a smaller pos.
fixpos(codes) ==
    [i \in 1..Len(codes) |->
        [wc |-> codes[i].wc,
         pos |-> codes[i].pos
                 - Cardinality({j \in (i + 1)..Len(codes) : codes[j].pos < codes[i].pos})]]

\* The end of the body of the suffix loop, e being what encode did.
suffix_after(st, c, delta, e, i) ==
    IF e.st # "ok"
    THEN [st EXCEPT !.st = e.st, !.mem = e.mem, !.deltas = Append(@, delta)]
    ELSE [st EXCEPT !.mem = e.mem,
                    !.encpos = @ + e.pos,
                    !.rlen = @ + 1,
                    !.last = (c.wc * (st.rlen + 2)) + c.pos + 1,
                    !.bias = adapt(delta, st.rlen + 1, i = 0),
                    !.deltas = Append(@, delta)]

suffix_delta(enclen, st, c, delta, i) ==
    suffix_after(st, c, delta,
                 encode(st.mem, st.encpos, satsub(enclen, st.encpos), st.bias, delta),
                 i)

\* The body of the suffix loop for the entry c = codes[i].
suffix_step(enclen, st, c, i) ==
    suffix_delta(enclen, st, c, (c.wc * (st.rlen + 1)) + c.pos - st.last, i)

RECURSIVE suffixloop(_, _, _, _)
suffixloop(codes, enclen, st, i) ==
    IF i < Len(codes) /\ st.st = "ok"
    THEN suffixloop(codes, enclen, suffix_step(enclen, st, codes[i + 1], i), i + 1)
    ELSE st

\* The state before the suffix loop, b being the state after the basic
\* pass: the separator comes first when there is a prefix.
suffix_init(enclen, b) ==
    [st |-> "ok",
     mem |-> IF b.encpos # 0 THEN OUT(b.mem, 0, enclen, b.encpos, CH_USCORE) ELSE b.mem,
     encpos |-> IF b.encpos # 0 THEN b.encpos + 1 ELSE b.encpos,
     rlen |-> b.encpos,
     last |-> (INITIAL_N * (b.encpos + 1))
              - (IF b.encpos = 0 THEN 10 * (b.encpos + 1) ELSE 0),
     bias |-> INITIAL_BIAS,
     deltas |-> << >>]

\* After the suffix loop: the separator comes last when there is no prefix.
suffix_finish(enclen, plen, s) ==
    IF s.st # "ok"
    THEN [st |-> s.st, ret |-> FUNYCODE_ERR, mem |-> s.mem, deltas |-> s.deltas]
    ELSE IF plen = 0
    THEN [st |-> "ok", ret |-> s.encpos + 1,
          mem |-> OUT(OUT(s.mem, 0, enclen, s.encpos, CH_USCORE),
                      0, enclen, s.encpos + 1, CH_NUL),
          deltas |-> s.deltas]
    ELSE [st |-> "ok", ret |-> s.encpos,
          mem |-> OUT(s.mem, 0, enclen, s.encpos, CH_NUL), deltas |-> s.deltas]

\* if (ncodes) { ... }, b being the state after the basic pass.
bootstring_suffix(enclen, b) ==
    IF b.codes = << >>
    THEN [st |-> "ok", ret |-> b.encpos,
          mem |-> OUT(b.mem, 0, enclen, b.encpos, CH_NUL), deltas |-> << >>]
    ELSE suffix_finish(enclen, b.encpos,
            suffixloop(fixpos(sortcodes(b.codes)), enclen, suffix_init(enclen, b), 0))

\* The part of wfunencode after compress: buf is the compressed stream.
bootstring(enclen, buf) ==
    bootstring_suffix(enclen,
        basicpass(buf, enclen, [encpos |-> 0, mem |-> EmptyMem, codes |-> << >>], 0))

wfunencode_result(stream, b) ==
    [st |-> b.st, ret |-> b.ret, mem |-> b.mem, stream |-> stream,
     deltas |-> b.deltas]

wfunencode_boot(enclen, stream) ==
    wfunencode_result(stream, bootstring(enclen, stream))

\* wfunencode(enc, enclen, name, namelen).  st is "ok" when the call
\* returns ret, "abort" when an assertion stops the program; mem holds the
\* written cells of enc, stream what compress produced, deltas the deltas
\* handed to encode.
wfunencode(enclen, nm, htab0, g) ==
    wfunencode_boot(enclen, CompressedStream(compress(Len(nm), nm, htab0, g)))

(***************************************************************************)
(* wfundecode, first revision.                                             *)
(***************************************************************************)
\* The value of a base 62 digit character, -1 for any other character (the
\* branches of get and of decode_value).
digitvalue(ch) ==
    IF ch >= CH_0 /\ ch <= CH_9 THEN ch - CH_0
    ELSE IF ch >= CH_A /\ ch <= CH_Z THEN ch - CH_A + 10
    ELSE IF ch >= CH_a /\ ch <= CH_z THEN ch - CH_a + 36
    ELSE -1

\* get(buf, len), buf being enc seen from offset base: with nothing left to
\* read (len = 0) it answers 0, the value of the digit '0'.
get(enc, base, len) ==
    IF len > 0 THEN digitvalue(enc[base + 1]) ELSE 0

\* decode_step ending the delta at a digit equal to the threshold too.
decode_step_early(st, t, v) ==
    IF v < 0
    THEN [st EXCEPT !.ret = FUNYCODE_ERR, !.done = TRUE]
    ELSE IF v <= t
    THEN [st EXCEPT !.ret = st.pos + 1, !.delta = @ + (v * st.w), !.done = TRUE]
    ELSE [st EXCEPT !.pos = @ + 1, !.delta = @ + (v * st.w),
                    !.w = @ * (BASE - t)]

\* One round of the loop of a delta decoder, t being the threshold and v
\* the digit read.  w is multiplied only when the loop goes on: the product
\* computed before the break is never read.
decode_step(st, t, v) ==
    IF v < 0
    THEN [st EXCEPT !.ret = FUNYCODE_ERR, !.done = TRUE]
    ELSE IF v < t
    THEN [st EXCEPT !.ret = st.pos + 1, !.delta = @ + (v * st.w), !.done = TRUE]
    ELSE [st EXCEPT !.pos = @ + 1, !.delta = @ + (v * st.w),
                    !.w = @ * (BASE - t)]

RECURSIVE decode_loop(_, _, _, _, _)
decode_loop(enc, base, len, bias, st) ==
    IF st.done
    THEN st
    ELSE decode_loop(enc, base, len, bias,
            decode_step(st, tresh(st.pos, bias),
                        get(enc, base + st.pos, satsub(len, st.pos))))

\* decode(buf, len, bias, &delta), buf being enc seen from offset base.
decode(enc, base, len, bias) ==
    decode_loop(enc, base, len, bias,
                [ret |-> 0, delta |-> 0, pos |-> 0, w |-> 1, done |-> FALSE])

\* memchr(enc, '_', enclen): the 0-based index of the first '_', -1 if none.
RECURSIVE memchr_from(_, _)
memchr_from(enc, i) ==
    IF i >= Len(enc) THEN -1
    ELSE IF enc[i + 1] = CH_USCORE THEN i
    ELSE memchr_from(enc, i + 1)

memchr_uscore(enc) == memchr_from(enc, 0)

\* wmemmove(buf + rem + 1, buf + rem, ...); buf[rem] = wc, on the symbols
\* decoded so far.
insertat(buf, rem, wc) ==
    [i \in 1..(Len(buf) + 1) |->
        IF i <= rem THEN buf[i] ELSE IF i = rem + 1 THEN wc ELSE buf[i - 1]]

\* (wchar_t) div.quot: wchar_t is a 32-bit int.  Every quotient of the
\* bounded inputs is below 2^31 (a larger one stops the model checker, whose
\* integers have that width), where the cast changes nothing.
towchar(q) == q

\* The end of the body of an insertion loop: the symbol quot goes in at
\* rem.
insert_at(buflen, st, delta, n, quot, rem, first) ==
    [st EXCEPT !.buf = IF rem < buflen THEN insertat(@, rem, towchar(quot)) ELSE @,
               !.namepos = @ + 1,
               !.last = (quot * (st.namepos + 2)) + rem + 1,
               !.bias = adapt(delta, st.namepos + 1, first),
               !.i = @ + n]

\* The body of an insertion loop, d being what decode did.
insert_step(buflen, st, d, first) ==
    IF d.ret = FUNYCODE_ERR
    THEN [st EXCEPT !.st = "err"]
    ELSE insert_at(buflen, st, d.delta, d.ret,
                   cquot(d.delta + st.last, st.namepos + 1),
                   crem(d.delta + st.last, st.namepos + 1), first)

\* The insertion loop: i counts the suffix bytes consumed.
RECURSIVE insertloop(_, _, _, _, _)
insertloop(enc, enclen, encpos, buflen, st) ==
    IF st.i < enclen - encpos /\ st.st = "ok"
    THEN insertloop(enc, enclen, encpos, buflen,
            insert_step(buflen, st,
                        decode(enc, encpos + st.i, satsub(enclen, encpos + st.i),
                               st.bias),
                        st.i = 0))
    ELSE st

\* The end of a wfundecode: s is the state after the insertion loop, d what
\* decompress did with the symbols, used the bytes of enc the delta decoder
\* accounted for, avail the bytes of enc it was given (enclen once a
\* closing separator is dropped).
wfundecode_result(namelen, s, d, used, avail) ==
    IF s.st # "ok"
    THEN [st |-> "ok", ret |-> FUNYCODE_ERR, mem |-> EmptyMem,
          stream |-> s.buf, used |-> used, avail |-> avail]
    ELSE IF d.st # "ok"
    THEN [st |-> d.st, ret |-> FUNYCODE_ERR, mem |-> d.mem,
          stream |-> s.buf, used |-> used, avail |-> avail]
    ELSE [st |-> "ok", ret |-> d.ret,
          mem |-> OUT(d.mem, 0, namelen, d.ret, CH_NUL),
          stream |-> s.buf, used |-> used, avail |-> avail]

wfundecode_expand(namelen, oob, enclen, encpos, s) ==
    wfundecode_result(namelen, s, decompress(namelen, s.buf, oob), encpos + s.i,
                      enclen)

\* wfundecode once the separator is located: plen basic symbols, the suffix
\* in enc[encpos..enclen-1].
wfundecode_split(namelen, enc, oob, buflen, plen, enclen, encpos) ==
    wfundecode_expand(namelen, oob, enclen, encpos,
        insertloop(enc, enclen, encpos, buflen,
            [st |-> "ok", buf |-> SubSeq(enc, 1, plen), namepos |-> plen,
             last |-> (INITIAL_N * (plen + 1))
                      - (IF plen = 0 THEN 10 * (plen + 1) ELSE 0),
             bias |-> INITIAL_BIAS, i |-> 0]))

\* p is memchr's answer: a '_' at the very end means there is no prefix.
wfundecode_sep(namelen, enc, oob, buflen, p) ==
    IF p # -1 /\ p = Len(enc) - 1
    THEN wfundecode_split(namelen, enc, oob, buflen, 0, Len(enc) - 1, 0)
    ELSE IF p # -1
    THEN wfundecode_split(namelen, enc, oob, buflen, p, Len(enc), p + 1)
    ELSE wfundecode_split(namelen, enc, oob, buflen, Len(enc), Len(enc), Len(enc))

\* wfundecode(name, namelen, enc, enclen).  st is "ok" when the call
\* returns ret (FUNYCODE_ERR included), "fault" when it does not return;
\* mem holds the written cells of name, stream the symbols handed to
\* decompress, used the number of bytes of enc the delta decoder accounted
\* for and avail the number it was given.
wfundecode(namelen, enc, oob) ==
    wfundecode_sep(namelen, enc, oob, Max(namelen, Len(enc) * 2), memchr_uscore(enc))

(***************************************************************************)
(* Second revision (src/funycode.c from line 616): compress starts from a  *)
(* zero-filled htab, wfunencode sweeps n upwards, reads of enc go through  *)
(* IN.  hash, prefix, compress, decompress and adapt have the same text as *)
(* in the first revision.                                                  *)
(***************************************************************************)
\* htab[512] = { 0 }
ZeroTab == [i \in 0..(HTABSIZE - 1) |-> 0]

\* The macro IN(buf, len, pos): pos is a size_t, so -1 stands for SIZE_MAX.
IN_(buf, len, pos) == IF pos >= 0 /\ pos < len THEN buf[pos + 1] ELSE CH_NUL

isenc(ch, first) ==
    IF (ch >= CH_A /\ ch <= CH_Z) \/ (ch >= CH_a /\ ch <= CH_z) THEN FALSE
    ELSE IF ~first /\ ch >= CH_0 /\ ch <= CH_9 THEN FALSE
    ELSE TRUE

\* OUT(buf, len, pos + i, encode_value(val)) on the loop record of encode:
\* the assertion of encode_value aborts the program when val is not a base
\* 62 digit.
encode_value(st, len, pos, val) ==
    IF val >= 0 /\ val <= BASE - 1
    THEN [st EXCEPT !.mem = OUT(st.mem, 0, len, pos + st.pos, digitchar(val)),
                    !.pos = @ + 1]
    ELSE [st EXCEPT !.st = "abort", !.pos = @ + 1]

\* t = (i + 1) * BASE - bias, clamped to TMIN..TMAX: the second revision
\* computes the threshold in place.
tresh2(i, bias) ==
    IF ((i + 1) * BASE) - bias < TMIN THEN TMIN
    ELSE IF ((i + 1) * BASE) - bias > TMAX THEN TMAX
    ELSE ((i + 1) * BASE) - bias

encode2_step(st, len, pos, t) ==
    IF st.delta < t
    THEN [encode_value(st, len, pos, st.delta) EXCEPT !.done = TRUE]
    ELSE [encode_value(st, len, pos, crem(st.delta - t, BASE - t) + t)
            EXCEPT !.delta = cquot(st.delta - t, BASE - t)]

RECURSIVE encode2_loop(_, _, _, _)
encode2_loop(st, len, pos, bias) ==
    IF st.done \/ st.st # "ok"
    THEN st
    ELSE encode2_loop(encode2_step(st, len, pos, tresh2(st.pos, bias)), len, pos, bias)

\* encode(buf, len, pos, bias, delta) of the second revision: the pos of
\* the result is the number of digits.
encode2(mem, len, pos, bias, delta) ==
    encode2_loop([st |-> "ok", mem |-> mem, pos |-> 0, delta |-> delta,
                  done |-> FALSE], len, pos, bias)

\* The first if / else if chain of the inner loop's body.
sweep_scan(st, ch, n) ==
    IF ~isenc(ch, st.first)
    THEN [st EXCEPT !.first = FALSE, !.decpos = @ + 1]
    ELSE IF ch < n
    THEN [st EXCEPT !.decpos = @ + 1]
    ELSE IF ch > n /\ ch < st.next
    THEN [st EXCEPT !.next = ch]
    ELSE st

\* if (ch == n) { ... } once encode has run (e).
sweep_after(st, ch, delta, e) ==
    IF e.st # "ok"
    THEN [st EXCEPT !.st = e.st, !.mem = e.mem, !.deltas = Append(@, delta)]
    ELSE [st EXCEPT !.mem = e.mem,
                    !.encpos = @ + e.pos,
                    !.declen = @ + 1,
                    !.decpos = @ + 1,
                    !.last = (ch * (st.declen + 2)) + st.decpos + 1,
                    !.bias = adapt(delta, st.declen + 1, st.bias < 0),
                    !.deltas = Append(@, delta)]

sweep_delta(enclen, st, ch, delta) ==
    sweep_after(st, ch, delta,
                encode2(st.mem, enclen, st.encpos,
                        IF st.bias < 0 THEN INITIAL_BIAS ELSE st.bias, delta))

\* if (ch == n) { ... }: the test is on the symbol alone, whatever the
\* chain before made of it.
sweep_emit(enclen, st, ch, n) ==
    IF ch # n
    THEN st
    ELSE sweep_delta(enclen, st, ch, (ch * (st.declen + 1)) + st.decpos - st.last)

\* One pass of the inner loop of a sweep, over buf[i..].
RECURSIVE sweepinner(_, _, _, _, _)
sweepinner(buf, enclen, n, st, i) ==
    IF i < Len(buf) /\ st.st = "ok"
    THEN sweepinner(buf, enclen, n,
            sweep_emit(enclen, sweep_scan(st, buf[i + 1], n), buf[i + 1], n),
            i + 1)
    ELSE st

\* After the inner loop: nothing larger is left and nothing basic was
\* seen, so the separator closes the string.
sweep_close(enclen, s) ==
    IF s.st = "ok" /\ s.next = WCHAR_MAX /\ s.first
    THEN [s EXCEPT !.mem = OUT(s.mem, 0, enclen, s.encpos, CH_USCORE),
                   !.encpos = @ + 1,
                   !.n = s.next]
    ELSE [s EXCEPT !.n = s.next]

\* The outer loop: n = INITIAL_N, then each next larger value to encode.
RECURSIVE sweep(_, _, _)
sweep(buf, enclen, st) ==
    IF st.n < WCHAR_MAX /\ st.st = "ok"
    THEN sweep(buf, enclen,
            sweep_close(enclen,
                sweepinner(buf, enclen, st.n,
                    [st EXCEPT !.first = TRUE, !.decpos = 0, !.next = WCHAR_MAX],
                    0)))
    ELSE st

basicstep2(enclen, st, ch) ==
    IF ~isenc(ch, st.encpos = 0)
    THEN [st EXCEPT !.mem = OUT(st.mem, 0, enclen, st.encpos, wctob(ch)),
                    !.encpos = @ + 1]
    ELSE st

RECURSIVE basicpass2(_, _, _, _)
basicpass2(buf, enclen, st, i) ==
    IF i < Len(buf)
    THEN basicpass2(buf, enclen, basicstep2(enclen, st, buf[i + 1]), i + 1)
    ELSE st

\* The state before the sweeps, b being the state after the basic pass.
sweep_init(enclen, b) ==
    [st |-> "ok",
     mem |-> IF b.encpos # 0 THEN OUT(b.mem, 0, enclen, b.encpos, CH_USCORE) ELSE b.mem,
     encpos |-> IF b.encpos # 0 THEN b.encpos + 1 ELSE b.encpos,
     declen |-> b.encpos,
     decpos |-> 0,
     last |-> (INITIAL_N * (b.encpos + 1)) - (IF b.encpos = 0 THEN 10 ELSE 0),
     bias |-> -1,
     first |-> TRUE,
     next |-> WCHAR_MAX,
     n |-> INITIAL_N,
     deltas |-> << >>]

sweep_finish(enclen, s) ==
    IF s.st # "ok"
    THEN [st |-> s.st, ret |-> FUNYCODE_ERR, mem |-> s.mem, deltas |-> s.deltas]
    ELSE [st |-> "ok", ret |-> s.encpos,
          mem |-> OUT(s.mem, 0, enclen, s.encpos, CH_NUL), deltas |-> s.deltas]

bootstring2_suffix(enclen, buf, b) ==
    IF b.encpos = Len(buf)
    THEN [st |-> "ok", ret |-> b.encpos,
          mem |-> OUT(b.mem, 0, enclen, b.encpos, CH_NUL), deltas |-> << >>]
    ELSE sweep_finish(enclen, sweep(buf, enclen, sweep_init(enclen, b)))

\* The part of the second wfunencode after compress.
bootstring2(enclen, buf) ==
    bootstring2_suffix(enclen, buf,
        basicpass2(buf, enclen, [encpos |-> 0, mem |-> EmptyMem], 0))

wfunencode2_boot(enclen, stream) ==
    wfunencode_result(stream, bootstring2(enclen, stream))

\* wfunencode(enc, enclen, name, namelen) of the second revision.
wfunencode2(enclen, nm, g) ==
    wfunencode2_boot(enclen, CompressedStream(compress(Len(nm), nm, ZeroTab, g)))

RECURSIVE decode2_loop(_, _, _, _, _)
decode2_loop(enc, len, pos, bias, st) ==
    IF st.done
    THEN st
    ELSE decode2_loop(enc, len, pos, bias,
            decode_step(st, tresh2(st.pos, bias),
                        digitvalue(IN_(enc, len, pos + st.pos))))

\* decode(buf, len, pos, bias, &delta) of the second revision.
decode2(enc, len, pos, bias) ==
    decode2_loop(enc, len, pos, bias,
                 [ret |-> 0, delta |-> 0, pos |-> 0, w |-> 1, done |-> FALSE])

\* The loop copying the prefix: up to the first '_' or the end.
RECURSIVE prefixend2(_, _, _)
prefixend2(enc, enclen, encpos) ==
    IF encpos < enclen /\ IN_(enc, enclen, encpos) # CH_USCORE
    THEN prefixend2(enc, enclen, encpos + 1)
    ELSE encpos

\* The insertion loop of the second revision: i is encpos.
RECURSIVE insertloop2(_, _, _, _)
insertloop2(enc, enclen, buflen, st) ==
    IF st.i < enclen /\ st.st = "ok"
    THEN insertloop2(enc, enclen, buflen,
            insert_step(buflen, st,
                        decode2(enc, enclen, st.i,
                                IF st.bias < 0 THEN INITIAL_BIAS ELSE st.bias),
                        st.bias < 0))
    ELSE st

wfundecode2_expand(namelen, oob, enclen, s) ==
    wfundecode_result(namelen, s, decompress(namelen, s.buf, oob), s.i, enclen)

\* wfundecode once the prefix is copied: pend basic symbols, the suffix
\* from encpos.
wfundecode2_split(namelen, enc, oob, buflen, enclen, pend, encpos) ==
    wfundecode2_expand(namelen, oob, enclen,
        insertloop2(enc, enclen, buflen,
            [st |-> "ok", buf |-> SubSeq(enc, 1, pend), namepos |-> pend,
             i |-> encpos,
             last |-> (INITIAL_N * (pend + 1)) - (IF pend = 0 THEN 10 ELSE 0),
             bias |-> -1]))

wfundecode2_prefix(namelen, enc, oob, buflen, enclen, pend) ==
    wfundecode2_split(namelen, enc, oob, buflen, enclen, pend,
                      IF IN_(enc, enclen, pend) = CH_USCORE THEN pend + 1 ELSE pend)

\* wfundecode(name, namelen, enc, enclen) of the second revision.
wfundecode2(namelen, enc, oob) ==
    IF IN_(enc, Len(enc), Len(enc) - 1) = CH_USCORE
    THEN wfundecode2_split(namelen, enc, oob, Max(namelen, Len(enc) * 2),
                           Len(enc) - 1, 0, 0)
    ELSE wfundecode2_prefix(namelen, enc, oob, Max(namelen, Len(enc) * 2),
                            Len(enc), prefixend2(enc, Len(enc), 0))

(***************************************************************************)
(* The inputs of the bounded model.                                        *)
(***************************************************************************)
\* Longest name over Alphabet, longest name over RepAlphabet (long enough
\* for compress to find matches), longest string handed to wfundecode
\* directly, longest truncated caller buffer, largest content of an
\* uninitialised htab slot, longest of the short names (those encoded with
\* truncated buffers, and those a name's encoding is compared with).
MaxLen == 4
MaxRepLen == 10
MaxEncLen == 4
MaxBufLen == 4
MaxGarbage == 1
MaxShort == 2

\* A caller buffer that holds every result of the model (the first size
\* funyfilt allocates).
Ample == 64

\* TAB, '0', '[', '_', 'a', u-umlaut
Alphabet == {9, 48, 91, 95, 97, 252}

\* '_', 'a'
RepAlphabet == {95, 97}

\* '0', '1', '8', 'O', '_', 'a', 'g'
EncAlphabet == {48, 49, 56, 79, 95, 97, 103}

SeqsUpTo(S, n) == UNION {[1..k -> S] : k \in 0..n}

\* The reference vectors of the specification.
RefVectors ==
    <<
    \* "foo" -> "foo"
    [in |-> <<102, 111, 111>>,
     out |-> <<102, 111, 111>>],
    \* "foo_bar" -> "foobar_H7"
    [in |-> <<102, 111, 111, 95, 98, 97, 114>>,
     out |-> <<102, 111, 111, 98, 97, 114, 95, 72, 55>>],
    \* "supercalifragilisticexpialidocious" -> "supercalifragilisticexpialidocious"
    [in |-> <<115, 117, 112, 101, 114, 99, 97, 108, 105, 102, 114, 97,
            103, 105, 108, 105, 115, 116, 105, 99, 101, 120, 112, 105,
            97, 108, 105, 100, 111, 99, 105, 111, 117, 115>>,
     out |-> <<115, 117, 112, 101, 114, 99, 97, 108, 105, 102, 114, 97,
             103, 105, 108, 105, 115, 116, 105, 99, 101, 120, 112, 105,
             97, 108, 105, 100, 111, 99, 105, 111, 117, 115>>],
    \* "bücher" -> "bcher_eL"
    [in |-> <<98, 252, 99, 104, 101, 114>>,
     out |-> <<98, 99, 104, 101, 114, 95, 101, 76>>],
    \* "hörbücher" -> "hrbcher_5S0u0"
    [in |-> <<104, 246, 114, 98, 252, 99, 104, 101, 114>>,
     out |-> <<104, 114, 98, 99, 104, 101, 114, 95, 53, 83, 48, 117,
             48>>],
    \* "_" -> "C1_"
    [in |-> <<95>>,
     out |-> <<67, 49, 95>>],
    \* " " -> "A0_"
    [in |-> <<32>>,
     out |-> <<65, 48, 95>>],
    \* "自転車" -> "qeE4K2A1_"
    [in |-> <<33258, 36578, 36554>>,
     out |-> <<113, 101, 69, 52, 75, 50, 65, 49, 95>>],
    \* "велосипед" -> "FH420EHL9G_"
    [in |-> <<1074, 1077, 1083, 1086, 1089, 1080, 1087, 1077, 1076>>,
     out |-> <<70, 72, 52, 50, 48, 69, 72, 76, 57, 71, 95>>]
    >>

RefInputs == {RefVectors[i].in : i \in 1..Len(RefVectors)}

Names == SeqsUpTo(Alphabet, MaxLen) \cup SeqsUpTo(RepAlphabet, MaxRepLen) \cup RefInputs

\* Names for the runs with truncated buffers.
BufNames ==
    SeqsUpTo(Alphabet, MaxShort)
    \cup {s \in SeqsUpTo({97}, MaxRepLen) : Len(s) >= 2 * MINCOPY}
    \cup {RefVectors[2].in, RefVectors[4].in}

EncStrings == SeqsUpTo(EncAlphabet, MaxEncLen)

\* What an uninitialised htab may hold (first revision), what lies past the
\* end of the caller's name array, and what a read outside the caller's
\* output buffer does.
HtabInits == {[i \in 0..(HTABSIZE - 1) |-> v] : v \in 0..MaxGarbage}

SrcGarbage == {0, 97}

NoFault == [fault |-> FALSE, val |-> 0]

OobReads == {[fault |-> TRUE, val |-> 0], NoFault, [fault |-> FALSE, val |-> 35]}

(***************************************************************************)
(* The state machine: a caller with one name (or one encoded string) makes *)
(* one call of wfunencode and one of wfundecode on its result, with the    *)
(* revision impl of the library.                                           *)
(***************************************************************************)
VARIABLES
    \* "idle", "encoded" (encstr holds a whole encoded string), "received"
    \* (encstr came from outside), "truncated" (enc did not fit in enclen),
    \* "decoded", "aborted" (an assertion failed), "faulted"
    pc,
    \* the revision of the library: 1 (sort) or 2 (sweep)
    impl,
    \* the caller's name
    name,
    \* the length of the caller's buffer in the wfunencode call
    enclen,
    \* what wfunencode did: st, ret, mem (the written cells of enc), stream
    \* (what compress produced), deltas
    enc,
    \* the encoded string handed to wfundecode
    encstr,
    \* the length of the caller's buffer in the wfundecode call
    namelen,
    \* what wfundecode did: st, ret, mem, stream, used, avail
    dec,
    \* the bias and the delta of a call of encode made on its own
    ebias,
    edelta

vars == <<pc, impl, name, enclen, enc, encstr, namelen, dec, ebias, edelta>>

NoEnc == [st |-> "none", ret |-> 0, mem |-> EmptyMem, stream |-> << >>, deltas |-> << >>]

NoDec ==
    [st |-> "none", ret |-> 0, mem |-> EmptyMem, stream |-> << >>, used |-> 0,
     avail |-> 0]

InitWith(names) ==
    /\ pc = "idle"
    /\ impl \in {1, 2}
    /\ name \in names
    /\ enclen = 0
    /\ enc = NoEnc
    /\ encstr = << >>
    /\ namelen = 0
    /\ dec = NoDec
    /\ ebias = INITIAL_BIAS
    /\ edelta = 0

Init == InitWith(Names)

InitBuf == InitWith(BufNames)

\* The caller holds an encoded string of unknown origin.
InitDec ==
    /\ pc = "received"
    /\ impl \in {1, 2}
    /\ name = << >>
    /\ enclen = 0
    /\ enc = NoEnc
    /\ encstr \in EncStrings
    /\ namelen = 0
    /\ dec = NoDec
    /\ ebias = INITIAL_BIAS
    /\ edelta = 0

Encoded(r, L) ==
    /\ enc' = r
    /\ enclen' = L
    /\ pc' = IF r.st # "ok" THEN "aborted"
             ELSE IF r.ret <= L THEN "encoded" ELSE "truncated"
    /\ encstr' = IF r.st = "ok" /\ r.ret <= L THEN Str(r.mem, r.ret) ELSE << >>
    /\ UNCHANGED <<impl, name, namelen, dec, ebias, edelta>>

\* wfunencode(enc, L, name, Len(name)), first revision.
WFunEncode(L) ==
    /\ pc = "idle"
    /\ impl = 1
    /\ \E h0 \in HtabInits, g \in SrcGarbage : Encoded(wfunencode(L, name, h0, g), L)

\* wfunencode(enc, L, name, Len(name)), second revision.
WFunEncode2(L) ==
    /\ pc = "idle"
    /\ impl = 2
    /\ \E g \in SrcGarbage : Encoded(wfunencode2(L, name, g), L)

Decoded(r, M) ==
    /\ dec' = r
    /\ namelen' = M
    /\ pc' = IF r.st = "ok" THEN "decoded" ELSE "faulted"
    /\ UNCHANGED <<impl, name, enclen, enc, encstr, ebias, edelta>>

\* wfundecode(name, M, encstr, Len(encstr)), first revision.
WFunDecode(M) ==
    /\ pc \in {"encoded", "received"}
    /\ impl = 1
    /\ \E oob \in OobReads : Decoded(wfundecode(M, encstr, oob), M)

\* wfundecode(name, M, encstr, Len(encstr)), second revision.
WFunDecode2(M) ==
    /\ pc \in {"encoded", "received"}
    /\ impl = 2
    /\ \E oob \in OobReads : Decoded(wfundecode2(M, encstr, oob), M)

Next ==
    \/ WFunEncode(Ample)
    \/ WFunEncode2(Ample)
    \/ WFunDecode(Ample)
    \/ WFunDecode2(Ample)

Spec == Init /\ [][Next]_vars

BufLens == (0..MaxBufLen) \cup {Ample}

NextBuf ==
    \/ \E L \in BufLens : WFunEncode(L)
    \/ \E L \in BufLens : WFunEncode2(L)
    \/ \E M \in BufLens : WFunDecode(M)
    \/ \E M \in BufLens : WFunDecode2(M)

SpecBuf == InitBuf /\ [][NextBuf]_vars

NextDec ==
    \/ WFunDecode(Ample)
    \/ WFunDecode2(Ample)

SpecDec == InitDec /\ [][NextDec]_vars

(***************************************************************************)
(* The compressor on its own: one call of compress on a symbol sequence,   *)
(* as wfunencode makes it (a destination as long as the source), and one   *)
(* call of decompress on the stream it produced.  Here enc is the result   *)
(* of compress (ret, mem, maxrd), encstr the stream and dec the result of  *)
(* decompress (st, ret, mem, oobread).                                     *)
(***************************************************************************)
\* The largest position an uninitialised slot of htab holds (besides one
\* value far above every position).
MaxTabGarbage == 8

\* Sequences longer than MaxRepLen: a match whose source lies before another
\* match, "abab..." with a match that overlaps what it writes, a run of one
\* symbol longer than MAXCOPY, and a sequence with symbols of every range.
LzLong ==
    {<<95, 95, 95, 97, 97, 97, 97, 97, 95, 95, 95, 97, 95>>,
     [i \in 1..14 |-> IF i % 2 = 1 THEN 97 ELSE 98],
     [i \in 1..(MAXCOPY + MINCOPY + 2) |-> 97],
     <<0, 9, 252, 33258, 0, 9, 252, 33258, 0, 9, 252, 33258, 1114111>>}

LzInputs == SeqsUpTo(RepAlphabet, MaxRepLen) \cup LzLong

\* What htab may hold on entry in the first revision: one value in every
\* slot, or values that differ from slot to slot.
LzTabs ==
    {[i \in 0..(HTABSIZE - 1) |-> v] : v \in 0..MaxTabGarbage}
    \cup {[i \in 0..(HTABSIZE - 1) |-> HTABSIZE * HTABSIZE],
          [i \in 0..(HTABSIZE - 1) |-> i % (MaxTabGarbage + 1)],
          [i \in 0..(HTABSIZE - 1) |-> (HTABSIZE - 1 - i) % (MaxTabGarbage + 1)]}

InitLz == InitWith(LzInputs)

Compressed(r) ==
    /\ enc' = r
    /\ enclen' = Len(name)
    /\ encstr' = CompressedStream(r)
    /\ pc' = "compressed"
    /\ UNCHANGED <<impl, name, namelen, dec, ebias, edelta>>

\* compress(buf, namelen, name, namelen), first revision: htab holds
\* whatever the stack held.
Compress ==
    /\ pc = "idle"
    /\ impl = 1
    /\ \E h0 \in LzTabs, g \in SrcGarbage : Compressed(compress(Len(name), name, h0, g))

\* compress(buf, namelen, name, namelen), second revision: htab is zeroed.
Compress2 ==
    /\ pc = "idle"
    /\ impl = 2
    /\ \E g \in SrcGarbage : Compressed(compress(Len(name), name, ZeroTab, g))

\* decompress(name, M, buf, namepos) on the stream compress produced.
Decompress(M) ==
    /\ pc = "compressed"
    /\ \E oob \in OobReads :
        /\ dec' = decompress(M, encstr, oob)
        /\ namelen' = M
        /\ pc' = IF dec'.st = "ok" THEN "decompressed" ELSE "faulted"
    /\ UNCHANGED <<impl, name, enclen, enc, encstr, ebias, edelta>>

NextLz ==
    \/ Compress
    \/ Compress2
    \/ Decompress(Ample)

SpecLz == InitLz /\ [][NextLz]_vars

(***************************************************************************)
(* The delta codec on its own: one call of encode with a bias and a delta, *)
(* and one call of decode, with the same bias, on the digits it wrote and  *)
(* the bytes that follow them.  Here enc is the loop record of encode (st, *)
(* mem, pos, delta, done), pos being the number of digits, and dec that of *)
(* decode (ret, delta, pos, w, done).                                      *)
(***************************************************************************)
\* Every delta up to MaxDelta, and some with three, four and five digits.
MaxDelta == 130

BigDeltas == {3782, 3783, 230000, 30000000}

Deltas == (0..MaxDelta) \cup BigDeltas

\* The sentinel of the second revision, biases that give every threshold
\* from the first digit on, INITIAL_BIAS, and biases adapt returns for
\* large deltas.
Biases == {-1, 0, 20, 40, 61, INITIAL_BIAS, 130, 200}

\* What follows the digits of a delta in the encoded string.
Tails == {<< >>, <<CH_0>>, <<CH_z>>, <<CH_USCORE>>, <<CH_0, CH_z>>}

InitCodec ==
    /\ pc = "idle"
    /\ impl \in {1, 2}
    /\ name = << >>
    /\ enclen = 0
    /\ enc = NoEnc
    /\ encstr = << >>
    /\ namelen = 0
    /\ dec = NoDec
    /\ ebias \in Biases
    /\ edelta \in Deltas

Digits(r, L) ==
    /\ enc' = r
    /\ enclen' = L
    /\ encstr' = IF r.st = "ok" THEN Str(r.mem, r.pos) ELSE << >>
    /\ pc' = IF r.st = "ok" THEN "digits" ELSE "aborted"
    /\ UNCHANGED <<impl, name, namelen, dec, ebias, edelta>>

\* encode(buf, L, bias, delta), first revision.
Encode(L) ==
    /\ pc = "idle"
    /\ impl = 1
    /\ Digits(encode(EmptyMem, 0, L, ebias, edelta), L)

\* encode(buf, L, 0, bias, delta), second revision.
Encode2(L) ==
    /\ pc = "idle"
    /\ impl = 2
    /\ Digits(encode2(EmptyMem, L, 0, ebias, edelta), L)

Read(r, e) ==
    /\ dec' = r
    /\ encstr' = e
    /\ pc' = "read"
    /\ UNCHANGED <<impl, name, enclen, enc, namelen, ebias, edelta>>

\* decode(buf, len, bias, &delta), first revision, buf holding the digits
\* and what follows them.
Decode ==
    /\ pc = "digits"
    /\ impl = 1
    /\ \E tail \in Tails :
        Read(decode(encstr \o tail, 0, Len(encstr \o tail), ebias), encstr \o tail)

\* decode(buf, len, 0, bias, &delta), second revision.
Decode2 ==
    /\ pc = "digits"
    /\ impl = 2
    /\ \E tail \in Tails :
        Read(decode2(encstr \o tail, Len(encstr \o tail), 0, ebias), encstr \o tail)

NextCodec ==
    \/ Encode(Ample)
    \/ Encode2(Ample)
    \/ Decode
    \/ Decode2

SpecCodec == InitCodec /\ [][NextCodec]_vars

(***************************************************************************)
(* Vocabulary of the properties.                                           *)
(***************************************************************************)
IsLetter(ch) == (ch >= CH_A /\ ch <= CH_Z) \/ (ch >= CH_a /\ ch <= CH_z)

IsDigit(ch) == ch >= CH_0 /\ ch <= CH_9

IsIdentChar(ch) == IsLetter(ch) \/ IsDigit(ch) \/ ch = CH_USCORE

\* No scalar of s lies in U+D800..U+DFFF.
WellFormed(s) == \A i \in 1..Len(s) : ~IsBackref(s[i])

\* Every scalar of s is a letter or, past the first position, a digit.
IdentLike(s) == \A i \in 1..Len(s) : IsLetter(s[i]) \/ (i > 1 /\ IsDigit(s[i]))

\* No run of MINCOPY symbols occurs at two positions of s.
NoRepeat(s) ==
    \A i, j \in 1..(Len(s) - MINCOPY + 1) :
        i < j => SubSeq(s, i, i + MINCOPY - 1) # SubSeq(s, j, j + MINCOPY - 1)

\* The number of symbols the first n symbols of a stream expand to.
RECURSIVE Emitted(_, _)
Emitted(s, n) ==
    IF n = 0 THEN 0
    ELSE Emitted(s, n - 1) + (IF IsBackref(s[n]) THEN TokLen(s[n]) ELSE 1)

\* The stream holds a match token reaching back before the start of the
\* output.
BadToken(s) ==
    \E k \in 1..Len(s) : IsBackref(s[k]) /\ TokDist(s[k]) > Emitted(s, k - 1)

\* The suffix of e stops inside a delta.  Read with every absent digit
\* taken as 0 (which ends a delta wherever it stands, every threshold being
\* at least TMIN), the deltas then account for more bytes than e has.
EndsInsideDelta(e) ==
    wfundecode(0, e, NoFault).used > wfundecode(0, e, NoFault).avail

\* The strings revision i may return for the name s.
EncodingsOf(i, s) ==
    {Str(r.mem, r.ret) :
        r \in {x \in (IF i = 1
                      THEN {wfunencode(Ample, s, h0, g) :
                                h0 \in HtabInits, g \in SrcGarbage}
                      ELSE {wfunencode2(Ample, s, g) : g \in SrcGarbage}) :
                   x.st = "ok"}}

\* What revision i does for the name s with a buffer that holds it all.
FullEncodings(i, s) ==
    IF i = 1
    THEN {wfunencode(Ample, s, h0, g) : h0 \in HtabInits, g \in SrcGarbage}
    ELSE {wfunencode2(Ample, s, g) : g \in SrcGarbage}

FullDecodings(i, e) ==
    IF i = 1 THEN {wfundecode(Ample, e, NoFault)} ELSE {wfundecode2(Ample, e, NoFault)}

\* r is what full is, cut to a buffer of len elements.
TruncationOf(r, len, full) ==
    /\ r.st = "ok"
    /\ \A i \in DOMAIN r.mem : i < len
    /\ r.ret = full.ret
    /\ \A i \in DOMAIN r.mem : i \in DOMAIN full.mem /\ r.mem[i] = full.mem[i]

OtherNames == SeqsUpTo(Alphabet, MaxShort)

\* The threshold revision i applies to the digit at pos.
Threshold(i, pos, bias) == IF i = 1 THEN tresh(pos, bias) ELSE tresh2(pos, bias)

\* Two runs of compress returned the same length and wrote the same symbols.
SameOutput(r, e) == r.ret = e.ret /\ r.mem = e.mem

(***************************************************************************)
(* C1 - round trip.                                                        *)
(***************************************************************************)
\* C1: for every name without a scalar in U+D800..U+DFFF (scalars below
\* U+0020 included), wfunencode returns, and wfundecode on what it returned
\* (both with ample buffers) returns the name: same length, same scalars.
RoundTrip ==
    WellFormed(name) =>
        /\ pc \notin {"aborted", "faulted"}
        /\ pc = "decoded" => (dec.ret = Len(name) /\ Str(dec.mem, dec.ret) = name)

\* C1, the failing case: the first revision is given the one scalar U+0009
\* and the assertion of put stops the program.
RoundTripAborted ==
    pc = "aborted" /\ impl = 1 /\ name = <<9>> /\ enc.st = "abort"

(***************************************************************************)
(* C2 - the output is a C identifier.                                      *)
(***************************************************************************)
\* C2: for every non-empty well-formed name, every character wfunencode
\* writes is one of 0-9A-Za-z_ and the first one is a letter.
ValidIdentifier ==
    (pc = "encoded" /\ name # << >> /\ WellFormed(name)) =>
        /\ \A i \in 1..Len(encstr) : IsIdentChar(encstr[i])
        /\ encstr # << >>
        /\ IsLetter(encstr[1])

\* C2, the failing case: "[" is encoded as "81_".
LeadingDigit ==
    pc = "encoded" /\ name = <<91>> /\ encstr = <<56, 49, CH_USCORE>>

(***************************************************************************)
(* C3 - one separator at most, never in front.                             *)
(***************************************************************************)
\* C3: the output of wfunencode holds '_' at most once, and never as its
\* first character.
SeparatorOnce ==
    pc = "encoded" =>
        /\ Cardinality({i \in 1..Len(encstr) : encstr[i] = CH_USCORE}) <= 1
        /\ encstr # << >> => encstr[1] # CH_USCORE

\* C3, the failing case: the second revision encodes the one scalar U+0009
\* as "_".
LeadingSeparator ==
    pc = "encoded" /\ impl = 2 /\ name = <<9>> /\ encstr = <<CH_USCORE>>

(***************************************************************************)
(* C4 - injectivity.                                                       *)
(***************************************************************************)
\* C4: two distinct well-formed names have different encodings: the
\* encoding of the caller's name is the encoding of no other (short) name.
Injective ==
    (pc = "encoded" /\ WellFormed(name)) =>
        \A s2 \in OtherNames :
            (s2 # name /\ WellFormed(s2)) => encstr \notin EncodingsOf(impl, s2)

\* C4, the failing case: the second revision encodes U+0009 U+0009 as "_",
\* which is its encoding of U+0009 too.
SharedEncoding ==
    /\ pc = "encoded" /\ impl = 2 /\ name = <<9, 9>>
    /\ encstr \in EncodingsOf(2, <<9>>)

(***************************************************************************)
(* C5 - names of basic characters are their own encoding.                  *)
(***************************************************************************)
\* C5, as stated: if every scalar of the name is a letter or, past the
\* first position, a digit, wfunencode returns the name itself, whatever its
\* length and its repetitions.
PrefixIdempotenceAnyName ==
    (pc # "idle" /\ IdentLike(name)) =>
        (enc.st = "ok" /\ enc.ret = Len(name) /\ Str(enc.mem, enc.ret) = name)

\* C5, amended: if every scalar of the name is a letter or, past the first
\* position, a digit, and the name has at most 2 * MINCOPY scalars or no run
\* of MINCOPY scalars occurs in it twice, wfunencode returns the name itself.
PrefixIdempotence ==
    (pc # "idle" /\ IdentLike(name)
     /\ (Len(name) <= 2 * MINCOPY \/ NoRepeat(name))) =>
        (enc.st = "ok" /\ enc.ret = Len(name) /\ Str(enc.mem, enc.ret) = name)

\* C5, its case: a name of basic characters longer than 2 * MINCOPY and
\* without a repeated run came back as it went in.
PrefixOnly ==
    /\ pc = "encoded"
    /\ Len(name) > 2 * MINCOPY /\ IdentLike(name) /\ NoRepeat(name)
    /\ encstr = name

BufferProtocol ==
    /\ pc \in {"encoded", "truncated"} =>
        \A full \in FullEncodings(impl, name) : TruncationOf(enc, enclen, full)
    /\ pc \in {"decoded", "faulted"} =>
        \A full \in FullDecodings(impl, encstr) : TruncationOf(dec, namelen, full)

\* C7, the failing case: decoding "aaaa_yTt7" into a buffer of four, the
\* copy of the match reads name[4] and the call does not return.
BufferOverread ==
    /\ pc = "faulted"
    /\ encstr = <<97, 97, 97, 97, CH_USCORE, 121, 84, 116, 55>>
    /\ namelen = 4

(***************************************************************************)
(* C8 - a match reaching back before the output.                           *)
(***************************************************************************)
\* C8: when the stream handed to decompress holds a match token whose dist
\* exceeds the number of symbols emitted before it, wfundecode returns
\* FUNYCODE_ERR.
DecompressionFailure ==
    (pc \in {"decoded", "faulted"} /\ BadToken(dec.stream)) =>
        (dec.st = "ok" /\ dec.ret = FUNYCODE_ERR)

\* C8, the failing case: "8gO_" is one match token of dist 1 at the start
\* of the output, and wfundecode returns the length 4.
BadTokenAccepted ==
    /\ pc = "decoded"
    /\ encstr = <<56, 103, 79, CH_USCORE>>
    /\ BadToken(dec.stream)
    /\ dec.ret = 4

(***************************************************************************)
(* C9 - a suffix that stops inside a delta.                                *)
(***************************************************************************)
\* C9: when the suffix of the encoded string ends in the middle of a delta
\* (its last digit is not below the threshold of its position), wfundecode
\* returns FUNYCODE_ERR.
TruncatedDeltaRejected ==
    (pc \in {"decoded", "faulted"} /\ EndsInsideDelta(encstr)) =>
        (dec.st = "ok" /\ dec.ret = FUNYCODE_ERR)

\* C9, the failing case: the first revision decodes "a_1" as two symbols.
TruncatedDeltaAccepted ==
    /\ pc = "decoded" /\ impl = 1
    /\ encstr = <<97, CH_USCORE, 49>>
    /\ dec.ret = 2
    /\ Str(dec.mem, dec.ret) = <<97, INITIAL_N>>

(***************************************************************************)
(* C10 - sorting and sweeping give the same suffix.                        *)
(***************************************************************************)
\* C10: for every compressed stream the sort strategy and the sweep
\* strategy write the same bytes, separator included, and return the same
\* length.  (Stated for the streams whose symbols are all at least
\* INITIAL_N, which both strategies encode.)
StrategiesAgree ==
    (pc # "idle" /\ \A i \in 1..Len(enc.stream) : enc.stream[i] >= INITIAL_N) =>
        /\ bootstring(enclen, enc.stream).st = bootstring2(enclen, enc.stream).st
        /\ bootstring(enclen, enc.stream).ret = bootstring2(enclen, enc.stream).ret
        /\ bootstring(enclen, enc.stream).mem = bootstring2(enclen, enc.stream).mem

\* C10, the failing case: for "0a0" the sweep encodes the digit twice and
\* returns six bytes where the sort returns fewer.
StrategiesDiffer ==
    /\ pc = "encoded" /\ impl = 2
    /\ name = <<CH_0, CH_a, CH_0>>
    /\ enc.ret = 6
    /\ bootstring(enclen, enc.stream).ret < enc.ret

(***************************************************************************)
(* C11 - a match refers to symbols already produced.                       *)
(***************************************************************************)
\* C11, as stated: in every stream compress produces, the dist of each match
\* token is at most the token's position in that stream, the number of
\* literals and tokens before it.
MatchWithinStream ==
    pc \in {"compressed", "decompressed", "faulted"} =>
        \A k \in 1..Len(encstr) :
            IsBackref(encstr[k]) => TokDist(encstr[k]) <= k - 1

\* C11, amended: in every stream compress produces, the dist of each match
\* token is at most the number of symbols the literals and tokens before it
\* expand to (the token's position in the uncompressed sequence).
MatchWithinOutput ==
    pc \in {"compressed", "decompressed", "faulted"} =>
        \A k \in 1..Len(encstr) :
            IsBackref(encstr[k]) => TokDist(encstr[k]) <= Emitted(encstr, k - 1)

\* C11, its case: a match token that follows another one and reaches back
\* further than its position in the stream, yet not before the start of
\* the uncompressed sequence.
MatchBehindMatch ==
    /\ pc = "compressed"
    /\ \E k \in 1..Len(encstr) :
        /\ IsBackref(encstr[k])
        /\ TokDist(encstr[k]) > k - 1
        /\ TokDist(encstr[k]) <= Emitted(encstr, k - 1)

(***************************************************************************)
(* C12 - decompress undoes compress.                                       *)
(***************************************************************************)
\* C12: for every symbol sequence without a symbol in U+D800..U+DFFF,
\* decompress applied to what compress produced returns the sequence: same
\* length, same symbols, and no read outside its buffer.
CompressRoundTrip ==
    (pc \in {"decompressed", "faulted"} /\ WellFormed(name)) =>
        /\ dec.st = "ok"
        /\ ~dec.oobread
        /\ dec.ret = Len(name)
        /\ Str(dec.mem, dec.ret) = name

\* C12, its case: "abab..." was compressed to literals and one match that
\* overlaps what it writes (dist 2, longer than that) and ends with the
\* input, and decompress gave the input back.
OverlapRestored ==
    /\ pc = "decompressed"
    /\ Len(name) > MaxRepLen
    /\ \A i \in 1..Len(name) : name[i] = (IF i % 2 = 1 THEN 97 ELSE 98)
    /\ IsBackref(encstr[Len(encstr)])
    /\ TokDist(encstr[Len(encstr)]) = 2
    /\ TokLen(encstr[Len(encstr)]) = Len(name) - MINCOPY
    /\ Str(dec.mem, dec.ret) = name

(***************************************************************************)
(* C15 - compress reads its source inside the source only.                 *)
(***************************************************************************)
\* C15: every element src[i] that compress reads has i < srclen.  (prefix
\* and the literal copies test their index against srclen before they read;
\* maxrd is the highest index hash read.)
NoSourceOverread ==
    pc \in {"compressed", "decompressed", "faulted"} => enc.maxrd < Len(name)

\* C15, the failing case: for ten 'a' the match of six symbols at position 4
\* ends with the input, and the inner loop hashes position 9, which reads
\* src[10] and src[11].
SourceOverread ==
    /\ pc = "compressed"
    /\ name = [i \in 1..10 |-> 97]
    /\ encstr = <<97, 97, 97, 97, BACKREF + 2>>
    /\ enc.maxrd = Len(name) + 1

(***************************************************************************)
(* C17 - the output of compress does not depend on what htab held.         *)
(***************************************************************************)
\* C17: the stream and the length compress produces for an input are the
\* same for every initial content of htab (zeroes, or whatever the stack
\* held) and for whatever lies behind the source.
HtabIndependence ==
    pc = "compressed" =>
        \A h0 \in LzTabs \cup {ZeroTab}, g \in SrcGarbage :
            SameOutput(compress(enclen, name, h0, g), enc)

\* C17, its case: the slot looked up at position MINCOPY was written by
\* none of the positions before it; with 1 in every slot on entry it names
\* a position in range whose first symbols agree with those at srcpos, yet
\* the match was refused, and matches were found later on.
StaleSlotRefused ==
    /\ pc = "compressed"
    /\ impl = 1
    /\ Len(name) > 2 * MINCOPY
    /\ \A i \in 0..(MINCOPY - 1) : hash(name, i, 0) # hash(name, MINCOPY, 0)
    /\ prefix(name, MINCOPY, 1) \in 1..(MINCOPY - 1)
    /\ encstr[MINCOPY + 1] = name[MINCOPY + 1]
    /\ \E k \in 1..Len(encstr) : IsBackref(encstr[k])

(***************************************************************************)
(* C13 - decode undoes encode.                                             *)
(***************************************************************************)
\* C13: for every delta >= 0 and every bias, encode writes finitely many
\* digits; decode with the same bias, reading them and whatever follows,
\* returns the number of digits encode wrote and the same delta; and the
\* last digit is the only one below the threshold of its position.
DeltaRoundTrip ==
    /\ pc # "aborted"
    /\ pc = "read" =>
        /\ dec.ret = enc.pos
        /\ dec.delta = edelta
        /\ \A i \in 1..enc.pos :
            (digitvalue(encstr[i]) < Threshold(impl, i - 1, ebias)) <=> (i = enc.pos)

\* C13, its case: a delta of three digits or more, followed by a byte that
\* is itself a digit below every threshold, was read back.
DeltaReadBack ==
    /\ pc = "read"
    /\ enc.pos >= 3
    /\ Len(encstr) > enc.pos
    /\ encstr[enc.pos + 1] = CH_0
    /\ dec.ret = enc.pos
    /\ dec.delta = edelta

(***************************************************************************)
(* C14 - round trip of names without control characters.                   *)
(***************************************************************************)
\* C14: for every name whose scalars are all at least INITIAL_N (U+0020)
\* and outside U+D800..U+DFFF, wfunencode returns, and wfundecode on what it
\* returned gives the name back: every scalar at its original position.
RoundTripAboveControls ==
    (WellFormed(name) /\ \A i \in 1..Len(name) : name[i] >= INITIAL_N) =>
        /\ pc \notin {"aborted", "faulted"}
        /\ pc = "decoded" => (dec.ret = Len(name) /\ Str(dec.mem, dec.ret) = name)

\* C14, the failing case: the second revision encodes "0a0" as "a0_m02",
\* which decodes to "0a00".
DigitInsertedTwice ==
    /\ pc = "decoded" /\ impl = 2
    /\ name = <<CH_0, CH_a, CH_0>>
    /\ encstr = <<CH_a, CH_0, CH_USCORE, 109, CH_0, 50>>
    /\ Str(dec.mem, dec.ret) = <<CH_0, CH_a, CH_0, CH_0>>

(***************************************************************************)
(* C16 - the assertion on the digit value.                                 *)
(***************************************************************************)
\* C16: for every name without a scalar in U+D800..U+DFFF, every delta that
\* wfunencode hands to encode is at least 0 and the assertion
\* val >= 0 && val <= BASE - 1 never fails: the call returns.
DigitAssertion ==
    (pc # "idle" /\ WellFormed(name)) =>
        /\ enc.st = "ok"
        /\ \A k \in 1..Len(enc.deltas) : enc.deltas[k] >= 0

\* C16, the failing case: for "a" followed by U+0009 the first revision
\* computes a negative delta and stops in the assertion of put.
NegativeDelta ==
    /\ pc = "aborted" /\ impl = 1
    /\ name = <<CH_a, 9>>
    /\ enc.st = "abort"
    /\ \E k \in 1..Len(enc.deltas) : enc.deltas[k] < 0
====
